---- MODULE Spec2Model ----
(***************************************************************************)
(* Model of rust/kernel/miscdev.rs: the Registration of a miscellaneous    *)
(* device (register, drop) and the four callbacks of its file_operations   *)
(* table (open, read, write, release), run by host threads.                *)
(*                                                                         *)
(* One owner thread constructs, registers and drops the Registration.      *)
(* Host threads deliver the callbacks.  Every function is cut into steps   *)
(* at the source lines named in each action's comment.                     *)
(*                                                                         *)
(* Specifications:                                                         *)
(*   Spec           a device type that implements every contract method    *)
(*   AnyDeviceSpec  a device type that implements any subset of them       *)
(*   ReaderSpec     the documented device SimpleReader, once registered    *)
(*   LayoutSpec     offset_of! and container_of! on a struct instance      *)
(***************************************************************************)
EXTENDS Integers, Sequences, FiniteSets, TLC

(* ------------------------------ bounds -------------------------------- *)

\* Number of register calls made on the one Registration.
MaxRegisterCalls == 2
\* Number of file objects the host may open on the device.
NumFiles == 2
\* Number of host threads delivering callbacks.
NumThreads == 2
\* Longest byte vector / largest requested count.
MaxLen == 1
\* Number of reads the host starts on the one file object it opens on the
\* documented reader.
MaxReaderReads == 3
\* Largest number of fields of a struct given to offset_of! / container_of!.
MaxFields == 3

Files == 1..NumFiles
Threads == 1..NumThreads
\* Every register call supplies its own shared-state value; 0 is "no value".
OpenDataIds == 1..MaxRegisterCalls
NoData == 0

\* Byte values carried by buffers.
Bytes == {65}
RECURSIVE SeqsUpTo(_)
SeqsUpTo(n) == IF n = 0 THEN {<<>>}
               ELSE SeqsUpTo(n - 1) \cup [1..n -> Bytes]
Buffers == SeqsUpTo(MaxLen)

(* ------------------------- errors and pointers ------------------------ *)

\* Host errno numbers.
EINVAL == 22
EFAULT == 14
ENOMEM == 12

\* kernel::error::Error::to_errno: the host status code of an error kind,
\* a negative number.
to_errno(e) == 0 - e

\* Error kinds a Device Contract method may raise.
ContractErrs == {EINVAL, EFAULT}
\* Status codes with which the host may refuse misc_register.
HostRegisterErrs == {0 - ENOMEM}

NULL == 0
\* Pointers are PtrBits wide; pointer arithmetic wraps at AddrSpace.
PtrBits == 16
AddrSpace == 2 ^ PtrBits
\* Address of the boxed Registration and byte offset of its miscdev field.
RegAddr == 4096
MiscdevOffset == 8
MiscdevPtr == RegAddr + MiscdevOffset
\* Addresses at which the Device Contract's open allocates per-open Data
\* (one value per file object).
DataAddr(f) == 8192 + 64 * f

\* ForeignOwnable for the per-open Data: the handle is the address of the
\* value; borrow and from_foreign read the value back from the address.
into_foreign(d) == DataAddr(d)
from_foreign(p) == (p - 8192) \div 64
borrow(p) == from_foreign(p)

\* MISC_DYNAMIC_MINOR
MISC_DYNAMIC_MINOR == 255

\* miscdevice::default(): zeroed descriptor.
DefaultMiscdev == [minor |-> 0, name |-> "", fops |-> "null"]
\* The descriptor as register fills it (lines 123-125).
PreparedMiscdev == [minor |-> MISC_DYNAMIC_MINOR, name |-> "rchrdev", fops |-> "FOPS"]

(* ------------------------------ state --------------------------------- *)

VARIABLES
    \* Registration fields
    registered,     \* Registration.registered
    miscdev,        \* Registration.miscdev
    open_data,      \* Registration.open_data: the value last written (MaybeUninit keeps no flag)
    \* host
    hostKnows,      \* the host's misc list holds the descriptor
    deregCalls,     \* number of misc_deregister calls
    \* destructor accounting
    dropCount,      \* dropCount[d]: how often the destructor of shared state d ran
    \* owner thread
    opc,            \* position of the owner thread
    arg,            \* `data` argument held by the running register call
    nreg,           \* register calls started so far
    pre,            \* Registration state at entry of the running/last register call
    regRes,         \* result of the last register call
    hostRes,        \* `res` of misc_register in the running/last register call
    \* file objects
    filp,           \* filp[f]: the host's struct file (private_data, f_pos)
    fstate,         \* fstate[f]: the host's view of the open instance
    intoForeign,    \* intoForeign[f]: into_foreign calls for the instance
    borrows,        \* borrows[f]: borrow was called for the instance
    fromForeign,    \* fromForeign[f]: from_foreign calls for the instance
    lateBorrows,    \* lateBorrows[f]: borrow was called after from_foreign
    \* host threads
    th,             \* th[t]: the callback thread t runs and its locals
    \* the device type T
    overridden,     \* the Device Contract methods T implements itself
    \* offset_of! / container_of! applied to one struct instance
    fields,         \* the struct's fields in declaration order: the size of each
    fieldIx,        \* the named field
    base,           \* address of the instance
    fieldPtr,       \* address of the named field of the instance
    recovered,      \* the pointer container_of! produced
    lpc,            \* position of the computation
    \* the documented reader (SimpleReader)
    context,        \* context[d]: the AtomicUsize that is per-open Data d
    delivered,      \* delivered[d]: the bytes read has returned for d, in order
    raced,          \* raced[d]: two read calls on d have overlapped
    reads           \* reads[d]: calls of SimpleReader::read on d so far

regVars == <<registered, miscdev, open_data>>
hostVars == <<hostKnows, deregCalls>>
ownerVars == <<opc, arg, nreg, pre, regRes, hostRes>>
fileVars == <<filp, fstate, intoForeign, borrows, fromForeign, lateBorrows>>
layoutVars == <<fields, fieldIx, base, fieldPtr, recovered, lpc>>
\* Variables that no step of register, drop or of a callback shim changes.
readerVars == <<context, delivered, raced, reads>>
otherVars == <<overridden, layoutVars, readerVars>>
vars == <<registered, miscdev, open_data, hostKnows, deregCalls, dropCount,
          opc, arg, nreg, pre, regRes, hostRes,
          filp, fstate, intoForeign, borrows, fromForeign, lateBorrows, th,
          overridden, fields, fieldIx, base, fieldPtr, recovered, lpc,
          context, delivered, raced, reads>>

\* MaybeUninit<OpenData> holds an initialized value: one was written and its
\* destructor has not run.
OpenDataInit == open_data # NoData /\ dropCount[open_data] = 0

\* Snapshot of the Registration's own state.
RegState == [registered |-> registered, miscdev |-> miscdev,
             open_data |-> open_data, init |-> OpenDataInit]

NoResult == [kind |-> "none", err |-> 0]
OkResult == [kind |-> "ok", err |-> 0]
ErrResult(code) == [kind |-> "err", err |-> code]

\* A host thread that runs no callback.  Locals of a running callback:
\*   f      the file object (filp)          count  requested length
\*   pos    *ppos as the host passed it     ref    shared state referenced by open
\*   data   the per-open Data the shim recovered from private_data
\*   buf    device_buf (read) / buffer (write)
\*   user   the user-space buffer: destination of read, source of write
\*   ret    the value returned to the host  ok     the operation succeeded
\*   called the Device Contract method was invoked
\*   cause  why the callback failed: "contract", "copy" or "alloc"
\*   err    the error the Device Contract method returned (0: none)
\*   head, to   locals of SimpleReader::read
\*   fposBefore, fposAfter   filp.f_pos around the returning step
IdleThread == [pc |-> "idle", op |-> "none", f |-> 0, count |-> 0, pos |-> 0,
               ref |-> 0, data |-> 0, buf |-> <<>>, user |-> <<>>, ok |-> FALSE, ret |-> 0,
               called |-> FALSE, cause |-> "none", err |-> 0,
               head |-> 0, to |-> 0,
               fposBefore |-> 0, fposAfter |-> 0]

\* The methods of the Device Contract (trait MiscDev, 315-348).
Methods == {"open", "read", "write", "release"}

\* No offset_of! / container_of! computation is under way.
LayoutIdle ==
    /\ fields = <<>> /\ fieldIx = 0 /\ base = 0
    /\ fieldPtr = 0 /\ recovered = 0 /\ lpc = "none"

\* Registration::default() is built by new_pinned_registered; before that
\* the fields hold the default values.
DeviceInit ==
    /\ registered = FALSE
    /\ miscdev = DefaultMiscdev
    /\ open_data = NoData
    /\ hostKnows = FALSE
    /\ deregCalls = 0
    /\ dropCount = [d \in OpenDataIds |-> 0]
    /\ opc = "start"
    /\ arg = NoData
    /\ nreg = 0
    /\ pre = [registered |-> FALSE, miscdev |-> DefaultMiscdev,
              open_data |-> NoData, init |-> FALSE]
    /\ regRes = NoResult
    /\ hostRes = 0
    /\ filp = [f \in Files |-> [private_data |-> NULL, f_pos |-> 0]]
    /\ fstate = [f \in Files |-> "Closed"]
    /\ intoForeign = [f \in Files |-> 0]
    /\ borrows = [f \in Files |-> FALSE]
    /\ fromForeign = [f \in Files |-> 0]
    /\ lateBorrows = [f \in Files |-> FALSE]
    /\ th = [t \in Threads |-> IdleThread]
    /\ context = [f \in Files |-> 0]
    /\ delivered = [f \in Files |-> <<>>]
    /\ raced = [f \in Files |-> FALSE]
    /\ reads = [f \in Files |-> 0]

\* The device type overrides every method of the contract: each method may
\* succeed or fail with an error of its own.
Init ==
    /\ DeviceInit
    /\ overridden = Methods
    /\ LayoutIdle

\* Running the destructor of shared-state value d.
DropOpenData(d) == dropCount' = [dropCount EXCEPT ![d] = @ + 1]

(* ------------------- Registration: construction ----------------------- *)

\* new_pinned_registered (105-112): box a default Registration, pin it and
\* call register with `data`.  Box::try_new may fail (107): the function
\* returns the allocation error and `data`, still owned by the function, is
\* destroyed.  An Err from register (110) is propagated by `?` and the box is
\* dropped: the owner then continues with DropBegin.
NewPinnedRegistered ==
    /\ opc = "start"
    /\ nreg' = nreg + 1
    /\ \/ /\ opc' = "reg_check"
          /\ arg' = nreg + 1
          /\ pre' = RegState
          /\ regRes' = NoResult
          /\ UNCHANGED dropCount
       \/ /\ opc' = "dead"
          /\ arg' = NoData
          /\ regRes' = ErrResult(to_errno(ENOMEM))
          /\ DropOpenData(nreg + 1)
          /\ UNCHANGED pre
    /\ UNCHANGED <<otherVars, regVars, hostVars, hostRes, fileVars, th>>

\* A further call of register (115) on the pinned Registration, with a new
\* shared-state value.
RegisterCall ==
    /\ opc = "idle"
    /\ nreg < MaxRegisterCalls
    /\ nreg' = nreg + 1
    /\ arg' = nreg + 1
    /\ pre' = RegState
    /\ regRes' = NoResult
    /\ opc' = "reg_check"
    /\ UNCHANGED <<otherVars, regVars, hostVars, dropCount, hostRes, fileVars, th>>

(* ------------------- Registration::register --------------------------- *)

\* Lines 117-120: already registered -> return Err(EINVAL); the `data`
\* argument goes out of scope and is destroyed.
RegisterRejectsNever == FALSE

RegisterRejects == registered

RegisterCheck ==
    /\ opc = "reg_check"
    /\ IF RegisterRejects
       THEN /\ regRes' = ErrResult(to_errno(EINVAL))
            /\ DropOpenData(arg)
            /\ arg' = NoData
            /\ opc' = "idle"
       ELSE /\ opc' = "reg_prepare"
            /\ UNCHANGED <<regRes, dropCount, arg>>
    /\ UNCHANGED <<otherVars, regVars, hostVars, nreg, pre, hostRes, fileVars, th>>

\* Lines 123-125: fill the descriptor.
RegisterPrepare ==
    /\ opc = "reg_prepare"
    /\ miscdev' = PreparedMiscdev
    /\ opc' = "reg_flag"
    /\ UNCHANGED <<otherVars, registered, open_data, hostVars, dropCount, arg, nreg, pre,
                   regRes, hostRes, fileVars, th>>

RegisterSkipFlag ==
    /\ opc = "reg_flag"
    /\ opc' = "reg_write"
    /\ UNCHANGED <<otherVars, regVars, hostVars, dropCount, arg, nreg, pre,
                   regRes, hostRes, fileVars, th>>

\* Line 126: registered = true.
RegisterSetFlag ==
    /\ opc = "reg_flag"
    /\ registered' = TRUE
    /\ opc' = "reg_write"
    /\ UNCHANGED <<otherVars, miscdev, open_data, hostVars, dropCount, arg, nreg, pre,
                   regRes, hostRes, fileVars, th>>

RegisterPublishesUnwritten ==
    /\ opc = "reg_write"
    /\ opc' = "reg_host"
    /\ UNCHANGED <<otherVars, regVars, hostVars, dropCount, arg, nreg, pre,
                   regRes, hostRes, fileVars, th>>

\* Line 127: open_data.write(data): the value moves into the Registration.
RegisterWriteData ==
    /\ opc = "reg_write"
    /\ open_data' = arg
    /\ arg' = NoData
    /\ opc' = "reg_host"
    /\ UNCHANGED <<otherVars, registered, miscdev, hostVars, dropCount, nreg, pre,
                   regRes, hostRes, fileVars, th>>

\* Line 129: misc_register.  The host either publishes the descriptor and
\* returns 0, or refuses with a negative status and publishes nothing.
MiscRegister ==
    /\ opc = "reg_host"
    /\ \/ /\ hostKnows' = TRUE
          /\ hostRes' = 0
       \/ /\ \E e \in HostRegisterErrs : hostRes' = e
          /\ UNCHANGED hostKnows
    /\ opc' = "reg_res"
    /\ UNCHANGED <<otherVars, regVars, deregCalls, dropCount, arg, nreg, pre, regRes,
                   fileVars, th>>

RegisterTestResKeepFlag ==
    /\ opc = "reg_res"
    /\ opc' = IF hostRes < 0 THEN "reg_undo" ELSE "reg_ok"
    /\ UNCHANGED <<otherVars, regVars, hostVars, dropCount, arg, nreg, pre,
                   regRes, hostRes, fileVars, th>>

\* Lines 130-132: on res < 0 clear the flag; otherwise go on to return Ok.
RegisterTestRes ==
    /\ opc = "reg_res"
    /\ IF hostRes < 0
       THEN /\ registered' = FALSE
            /\ opc' = "reg_undo"
       ELSE /\ opc' = "reg_ok"
            /\ UNCHANGED registered
    /\ UNCHANGED <<otherVars, miscdev, open_data, hostVars, dropCount, arg, nreg, pre,
                   regRes, hostRes, fileVars, th>>

RegisterUndoDataLeak ==
    /\ opc = "reg_undo"
    /\ opc' = "reg_err"
    /\ UNCHANGED <<otherVars, regVars, hostVars, dropCount, arg, nreg, pre, regRes,
                   hostRes, fileVars, th>>

\* Line 133: open_data.assume_init_drop().
RegisterUndoData ==
    /\ opc = "reg_undo"
    /\ DropOpenData(open_data)
    /\ opc' = "reg_err"
    /\ UNCHANGED <<otherVars, regVars, hostVars, arg, nreg, pre, regRes, hostRes,
                   fileVars, th>>

\* Line 134: to_result(res)? returns Err(res).
RegisterReturnErr ==
    /\ opc = "reg_err"
    /\ regRes' = ErrResult(hostRes)
    /\ opc' = "idle"
    /\ UNCHANGED <<otherVars, regVars, hostVars, dropCount, arg, nreg, pre, hostRes,
                   fileVars, th>>

\* Lines 137-143: return Ok(()).
RegisterReturnOk ==
    /\ opc = "reg_ok"
    /\ regRes' = OkResult
    /\ opc' = "idle"
    /\ UNCHANGED <<otherVars, regVars, hostVars, dropCount, arg, nreg, pre, hostRes,
                   fileVars, th>>

(* ------------------- Drop for Registration ---------------------------- *)

\* The owner lets go of the pinned box: drop (268) starts.
DropBegin ==
    /\ opc = "idle"
    /\ opc' = "drop_check"
    /\ UNCHANGED <<otherVars, regVars, hostVars, dropCount, arg, nreg, pre, regRes,
                   hostRes, fileVars, th>>

DropCheckSkipsDeregister ==
    /\ opc = "drop_check"
    /\ opc' = IF registered THEN "drop_data" ELSE "dead"
    /\ UNCHANGED <<otherVars, regVars, hostVars, dropCount, arg, nreg, pre, regRes,
                   hostRes, fileVars, th>>

\* Line 269: `if self.registered`; an unregistered Registration is freed
\* without further action.
DropCheck ==
    /\ opc = "drop_check"
    /\ opc' = IF registered THEN "drop_dereg" ELSE "dead"
    /\ UNCHANGED <<otherVars, regVars, hostVars, dropCount, arg, nreg, pre, regRes,
                   hostRes, fileVars, th>>

\* Line 270: misc_deregister: the host withdraws the descriptor.
MiscDeregister ==
    /\ opc = "drop_dereg"
    /\ hostKnows' = FALSE
    /\ deregCalls' = deregCalls + 1
    /\ opc' = "drop_data"
    /\ UNCHANGED <<otherVars, regVars, dropCount, arg, nreg, pre, regRes, hostRes,
                   fileVars, th>>

\* Line 271: open_data.assume_init_drop(); then the box is freed.
DropData ==
    /\ opc = "drop_data"
    /\ DropOpenData(open_data)
    /\ opc' = "dead"
    /\ UNCHANGED <<otherVars, regVars, hostVars, arg, nreg, pre, regRes, hostRes,
                   fileVars, th>>

OwnerNext ==
    \/ NewPinnedRegistered \/ RegisterCall
    \/ RegisterCheck \/ RegisterPrepare \/ RegisterSetFlag \/ RegisterWriteData
    \/ MiscRegister \/ RegisterTestRes \/ RegisterUndoData
    \/ RegisterReturnErr \/ RegisterReturnOk
    \/ DropBegin \/ DropCheck \/ MiscDeregister \/ DropData

(* ------------------------- the Device Contract ------------------------ *)

OverridesAll(m) == TRUE

\* The device type T implements method m of the contract itself.
Overrides(m) == m \in overridden

\* Errors method m of T may return: any of its own if T implements m; the
\* provided method (322-324, 330-332, 339-341, 345-347) returns Err(EINVAL).
ContractErrsOf(m) == IF Overrides(m) THEN ContractErrs ELSE {EINVAL}

(* ------------------------- callbacks: open ---------------------------- *)

container_of_adds(ptr, offset) == (ptr + offset) % AddrSpace

\* container_of! (407-413): the address of the enclosing struct from the
\* address of one of its fields, ptr.wrapping_offset(-offset).
container_of(ptr, offset) == (ptr - offset) % AddrSpace

\* The host delivers open for file object f on thread t: it stores the
\* descriptor's address in private_data and calls open_callback, which
\* recovers the Registration and takes a reference to open_data (147-157).
OpenEnter(t, f) ==
    /\ th[t].pc = "idle"
    /\ hostKnows
    /\ fstate[f] = "Closed"
    /\ container_of(MiscdevPtr, MiscdevOffset) = RegAddr
    /\ filp' = [filp EXCEPT ![f].private_data = MiscdevPtr]
    /\ fstate' = [fstate EXCEPT ![f] = "Opening"]
    /\ th' = [th EXCEPT ![t] = [IdleThread EXCEPT !.pc = "contract",
                                 !.op = "open", !.f = f, !.ref = open_data]]
    /\ UNCHANGED <<otherVars, regVars, hostVars, dropCount, ownerVars,
                   intoForeign, borrows, fromForeign, lateBorrows>>

\* Value returned by open_callback when T::open fails (168).
OpenFailCode == 0 - to_errno(EFAULT)

OpenContractKeepsPrivateData(t) ==
    /\ th[t].pc = "contract" /\ th[t].op = "open"
    /\ LET f == th[t].f IN
       \/ /\ Overrides("open")
          /\ intoForeign' = [intoForeign EXCEPT ![f] = @ + 1]
          /\ th' = [th EXCEPT ![t].pc = "ret", ![t].called = TRUE,
                              ![t].ok = TRUE, ![t].ret = 0]
          /\ UNCHANGED filp
       \/ /\ \E e \in ContractErrsOf("open") :
                th' = [th EXCEPT ![t].pc = "ret", ![t].called = TRUE,
                                 ![t].ok = FALSE, ![t].cause = "contract",
                                 ![t].err = e, ![t].ret = OpenFailCode]
          /\ UNCHANGED <<filp, intoForeign>>
    /\ UNCHANGED <<otherVars, regVars, hostVars, dropCount, ownerVars,
                   fstate, borrows, fromForeign, lateBorrows>>

\* Lines 159-169: T::open(open_data); on Ok the Data is handed to the host
\* with into_foreign and stored in private_data, and 0 is returned; on Err
\* nothing is stored.  The Data the contract builds for file object f is
\* identified by f: a file object is opened successfully at most once.
OpenContract(t) ==
    /\ th[t].pc = "contract" /\ th[t].op = "open"
    /\ LET f == th[t].f IN
       \/ /\ Overrides("open")
          /\ filp' = [filp EXCEPT ![f].private_data = into_foreign(f)]
          /\ intoForeign' = [intoForeign EXCEPT ![f] = @ + 1]
          /\ th' = [th EXCEPT ![t].pc = "ret", ![t].called = TRUE,
                              ![t].ok = TRUE, ![t].ret = 0]
       \/ /\ \E e \in ContractErrsOf("open") :
                th' = [th EXCEPT ![t].pc = "ret", ![t].called = TRUE,
                                 ![t].ok = FALSE, ![t].cause = "contract",
                                 ![t].err = e, ![t].ret = OpenFailCode]
          /\ UNCHANGED <<filp, intoForeign>>
    /\ UNCHANGED <<otherVars, regVars, hostVars, dropCount, ownerVars,
                   fstate, borrows, fromForeign, lateBorrows>>

(* ------------------------- callbacks: read ---------------------------- *)

\* `unsafe { *filp }.f_pos += n` (201, 248).  The block `{ *filp }` is a
\* value expression: it yields the file struct by value, so the addition is
\* applied to a temporary copy and the host's struct file keeps its f_pos.
AddToFpos(file, n) ==
    LET tmp == [file EXCEPT !.f_pos = @ + n]
    IN  file

\* Accounting of one borrow call on file f's handle.
Borrowed(f) ==
    /\ borrows' = [borrows EXCEPT ![f] = TRUE]
    /\ lateBorrows' = [lateBorrows EXCEPT ![f] = @ \/ fromForeign[f] > 0]

ReadTakesOwnership(t, f, count) ==
    /\ th[t].pc = "idle"
    /\ fstate[f] = "Open"
    /\ fromForeign' = [fromForeign EXCEPT ![f] = @ + 1]
    /\ th' = [th EXCEPT ![t] = [IdleThread EXCEPT !.pc = "contract",
                                 !.op = "read", !.f = f, !.count = count,
                                 !.data = from_foreign(filp[f].private_data),
                                 !.pos = filp[f].f_pos]]
    /\ UNCHANGED <<otherVars, regVars, hostVars, dropCount, ownerVars,
                   filp, fstate, intoForeign, borrows, lateBorrows>>

\* The host delivers read(filp, buffer, count, ppos) on an open instance;
\* read_callback borrows the Data from private_data (179-185).
ReadBorrow(t, f, count) ==
    /\ th[t].pc = "idle"
    /\ fstate[f] = "Open"
    /\ Borrowed(f)
    /\ th' = [th EXCEPT ![t] = [IdleThread EXCEPT !.pc = "contract",
                                 !.op = "read", !.f = f, !.count = count,
                                 !.data = borrow(filp[f].private_data),
                                 !.pos = filp[f].f_pos]]
    /\ UNCHANGED <<otherVars, regVars, hostVars, dropCount, ownerVars,
                   filp, fstate, intoForeign, fromForeign>>

\* Value returned by read_callback when T::read fails with e (188).
ReadErrCode(e) == 0 - to_errno(e)
\* Value returned by read_callback when _copy_to_user fails (205).
ReadCopyFaultCode == 0 - to_errno(EINVAL)

\* Lines 186-189: T::read(data, count, *ppos) returns a byte vector or an
\* error; the error is returned at once.
ReadContract(t) ==
    /\ th[t].pc = "contract" /\ th[t].op = "read"
    /\ \/ /\ Overrides("read")
          /\ \E b \in Buffers :
                th' = [th EXCEPT ![t].pc = "copy", ![t].called = TRUE,
                                 ![t].buf = b]
       \/ \E e \in ContractErrsOf("read") :
             th' = [th EXCEPT ![t].pc = "ret", ![t].called = TRUE,
                              ![t].ok = FALSE, ![t].cause = "contract",
                              ![t].err = e, ![t].ret = ReadErrCode(e),
                              ![t].fposBefore = filp[th[t].f].f_pos,
                              ![t].fposAfter = filp[th[t].f].f_pos]
    /\ UNCHANGED <<otherVars, regVars, hostVars, dropCount, ownerVars, fileVars>>

ReadCopyAdvancesFirst(t) ==
    /\ th[t].pc = "copy" /\ th[t].op = "read"
    /\ LET f == th[t].f
           len == Len(th[t].buf)
       IN \E res \in 0..len :
            /\ filp' = [filp EXCEPT ![f].f_pos = @ + len]
            /\ th' = [th EXCEPT
                        ![t].pc = "ret",
                        ![t].user = SubSeq(th[t].buf, 1, len - res),
                        ![t].ok = (res = 0),
                        ![t].cause = IF res = 0 THEN "none" ELSE "copy",
                        ![t].ret = IF res = 0 THEN len ELSE 0 - to_errno(EINVAL),
                        ![t].fposBefore = filp[f].f_pos,
                        ![t].fposAfter = filp'[f].f_pos]
    /\ UNCHANGED <<otherVars, regVars, hostVars, dropCount, ownerVars,
                   fstate, intoForeign, borrows, fromForeign, lateBorrows>>

\* Lines 190-206: _copy_to_user(buffer, device_buf, len) returns the number
\* of bytes it could not copy.  0: f_pos += len, return len.  Otherwise
\* return the fault code.
ReadCopy(t) ==
    /\ th[t].pc = "copy" /\ th[t].op = "read"
    /\ LET f == th[t].f
           len == Len(th[t].buf)
       IN \E res \in 0..len :
            /\ filp' = IF res = 0 THEN [filp EXCEPT ![f] = AddToFpos(@, len)]
                       ELSE filp
            /\ th' = [th EXCEPT
                        ![t].pc = "ret",
                        ![t].user = SubSeq(th[t].buf, 1, len - res),
                        ![t].ok = (res = 0),
                        ![t].cause = IF res = 0 THEN "none" ELSE "copy",
                        ![t].ret = IF res = 0 THEN len ELSE ReadCopyFaultCode,
                        ![t].fposBefore = filp[f].f_pos,
                        ![t].fposAfter = filp'[f].f_pos]
    /\ UNCHANGED <<otherVars, regVars, hostVars, dropCount, ownerVars,
                   fstate, intoForeign, borrows, fromForeign, lateBorrows>>

(* ------------------------- callbacks: write --------------------------- *)

\* The host delivers write(filp, buf, count, ppos) with count = Len(src)
\* source bytes; write_callback borrows the Data (216-219).
WriteBorrow(t, f, src) ==
    /\ th[t].pc = "idle"
    /\ fstate[f] = "Open"
    /\ Borrowed(f)
    /\ th' = [th EXCEPT ![t] = [IdleThread EXCEPT !.pc = "buffer",
                                 !.op = "write", !.f = f, !.count = Len(src),
                                 !.data = borrow(filp[f].private_data),
                                 !.user = src, !.pos = filp[f].f_pos]]
    /\ UNCHANGED <<otherVars, regVars, hostVars, dropCount, ownerVars,
                   filp, fstate, intoForeign, fromForeign>>

\* Values returned by write_callback when the buffer cannot be allocated
\* (225, 229), when _copy_from_user fails (241), when T::write fails (251).
WriteAllocFailCode == 0 - to_errno(EFAULT)
WriteCopyFaultCode == 0 - to_errno(EINVAL)
WriteErrCode(e) == 0 - to_errno(e)

\* Vec::try_with_capacity(count) followed by try_resize(count, 0u8)
\* (221, 227): count zero bytes.
ZeroedBuffer(count) == [i \in 1..count |-> 0]
\* _copy_from_user(to, from, n) leaving res bytes uncopied (233-237): the
\* first n - res bytes of `to` are overwritten with those of `from`.
copy_from_user(to, from, n, res) ==
    [i \in 1..Len(to) |-> IF i <= n - res THEN from[i] ELSE to[i]]

\* Lines 221-242: allocate a buffer of count bytes and fill it from user
\* space; either step may fail and then the callback returns.
WriteBuffer(t) ==
    /\ th[t].pc = "buffer" /\ th[t].op = "write"
    /\ LET fp == filp[th[t].f].f_pos
           count == th[t].count
       IN
       \/ th' = [th EXCEPT ![t].pc = "ret", ![t].ok = FALSE,
                           ![t].cause = "alloc",
                           ![t].ret = WriteAllocFailCode,
                           ![t].fposBefore = fp, ![t].fposAfter = fp]
       \/ \E res \in 0..count :
            LET buffer == copy_from_user(ZeroedBuffer(count), th[t].user,
                                         count, res)
            IN  IF res # 0
                THEN th' = [th EXCEPT ![t].pc = "ret", ![t].ok = FALSE,
                                      ![t].cause = "copy", ![t].buf = buffer,
                                      ![t].ret = WriteCopyFaultCode,
                                      ![t].fposBefore = fp, ![t].fposAfter = fp]
                ELSE th' = [th EXCEPT ![t].pc = "contract", ![t].buf = buffer]
    /\ UNCHANGED <<otherVars, regVars, hostVars, dropCount, ownerVars, fileVars>>

\* Lines 245-252: T::write(data, &buffer, *ppos); Ok(wlen): f_pos += wlen,
\* return wlen; Err(e): return the error code.
WriteContract(t) ==
    /\ th[t].pc = "contract" /\ th[t].op = "write"
    /\ LET f == th[t].f IN
       \/ \E wlen \in 0..MaxLen :
            /\ Overrides("write")
            /\ filp' = [filp EXCEPT ![f] = AddToFpos(@, wlen)]
            /\ th' = [th EXCEPT ![t].pc = "ret", ![t].called = TRUE,
                                ![t].ok = TRUE, ![t].ret = wlen,
                                ![t].fposBefore = filp[f].f_pos,
                                ![t].fposAfter = filp'[f].f_pos]
       \/ \E e \in ContractErrsOf("write") :
            /\ th' = [th EXCEPT ![t].pc = "ret", ![t].called = TRUE,
                                ![t].ok = FALSE, ![t].cause = "contract",
                                ![t].err = e, ![t].ret = WriteErrCode(e),
                                ![t].fposBefore = filp[f].f_pos,
                                ![t].fposAfter = filp[f].f_pos]
            /\ UNCHANGED filp
    /\ UNCHANGED <<otherVars, regVars, hostVars, dropCount, ownerVars,
                   fstate, intoForeign, borrows, fromForeign, lateBorrows>>

(* ------------------------- callbacks: release ------------------------- *)

\* No read or write callback is running on file object f.
NoCallbackOn(f) == \A u \in Threads : th[u].pc = "idle" \/ th[u].f # f

ReleaseBorrows(t, f) ==
    /\ th[t].pc = "idle"
    /\ fstate[f] = "Open"
    /\ NoCallbackOn(f)
    /\ Borrowed(f)
    /\ fstate' = [fstate EXCEPT ![f] = "Releasing"]
    /\ th' = [th EXCEPT ![t] = [IdleThread EXCEPT !.pc = "contract",
                                 !.op = "release", !.f = f,
                                 !.data = borrow(filp[f].private_data)]]
    /\ UNCHANGED <<otherVars, regVars, hostVars, dropCount, ownerVars,
                   filp, intoForeign, fromForeign>>

\* The host delivers release for an open instance once its last user is
\* gone; release_callback takes the Data back with from_foreign (256-262).
ReleaseFromForeign(t, f) ==
    /\ th[t].pc = "idle"
    /\ fstate[f] = "Open"
    /\ NoCallbackOn(f)
    /\ fstate' = [fstate EXCEPT ![f] = "Releasing"]
    /\ fromForeign' = [fromForeign EXCEPT ![f] = @ + 1]
    /\ th' = [th EXCEPT ![t] = [IdleThread EXCEPT !.pc = "contract",
                                 !.op = "release", !.f = f,
                                 !.data = from_foreign(filp[f].private_data)]]
    /\ UNCHANGED <<otherVars, regVars, hostVars, dropCount, ownerVars,
                   filp, intoForeign, borrows, lateBorrows>>

\* Value returned by release_callback when T::release fails with e (263).
ReleaseErrCode(e) == to_errno(e)

\* Line 263: T::release(data).map(|_| 0).unwrap_or_else(Error::to_errno).
ReleaseContract(t) ==
    /\ th[t].pc = "contract" /\ th[t].op = "release"
    /\ \/ /\ Overrides("release")
          /\ th' = [th EXCEPT ![t].pc = "ret", ![t].called = TRUE,
                              ![t].ok = TRUE, ![t].ret = 0]
       \/ \E e \in ContractErrsOf("release") :
             th' = [th EXCEPT ![t].pc = "ret", ![t].called = TRUE,
                              ![t].ok = FALSE, ![t].cause = "contract",
                              ![t].err = e, ![t].ret = ReleaseErrCode(e)]
    /\ UNCHANGED <<otherVars, regVars, hostVars, dropCount, ownerVars, fileVars>>

(* ------------------------- host: callback returns --------------------- *)

\* The callback's value reaches the host.  An open that returned 0 makes the
\* instance Open, any other value leaves it Closed; the return of release
\* retires the instance.
HostReturn(t) ==
    /\ th[t].pc = "ret"
    /\ LET f == th[t].f IN
       fstate' = CASE th[t].op = "open" ->
                        [fstate EXCEPT ![f] = IF th[t].ret = 0 THEN "Open"
                                              ELSE "Closed"]
                   [] th[t].op = "release" ->
                        [fstate EXCEPT ![f] = "Released"]
                   [] OTHER -> fstate
    /\ th' = [th EXCEPT ![t] = IdleThread]
    /\ UNCHANGED <<otherVars, regVars, hostVars, dropCount, ownerVars,
                   filp, intoForeign, borrows, fromForeign, lateBorrows>>

CallbackNext ==
    \/ \E t \in Threads, f \in Files : OpenEnter(t, f)
    \/ \E t \in Threads : OpenContract(t)
    \/ \E t \in Threads, f \in Files, count \in 0..MaxLen : ReadBorrow(t, f, count)
    \/ \E t \in Threads : ReadContract(t)
    \/ \E t \in Threads : ReadCopy(t)
    \/ \E t \in Threads, f \in Files, src \in Buffers : WriteBorrow(t, f, src)
    \/ \E t \in Threads : WriteBuffer(t)
    \/ \E t \in Threads : WriteContract(t)
    \/ \E t \in Threads, f \in Files : ReleaseFromForeign(t, f)
    \/ \E t \in Threads : ReleaseContract(t)
    \/ \E t \in Threads : HostReturn(t)

Next == OwnerNext \/ CallbackNext

Spec == Init /\ [][Next]_vars

\* The same program for a device type that overrides any subset of the
\* contract's methods.
AnyDeviceInit ==
    /\ DeviceInit
    /\ overridden \in SUBSET Methods
    /\ LayoutIdle

AnyDeviceSpec == AnyDeviceInit /\ [][Next]_vars

(* ====================================================================== *)
(* The documented device SimpleReader (278-314)                           *)
(* ====================================================================== *)

\* const READ_DATA: &str = "Hello CLT\n" as bytes.
READ_DATA == <<72, 101, 108, 108, 111, 32, 67, 76, 84, 10>>
\* Counts with which the host calls read.
ReaderCounts == {0, 3, 5, Len(READ_DATA)}
\* The file object the host opens on the reader.
ReaderFile == 1

Min(a, b) == IF a <= b THEN a ELSE b

\* A Registration<SimpleReader> after new_pinned_registered has returned
\* Ok: registered, published, no file opened yet.  SimpleReader implements
\* open and read.
ReaderInit ==
    /\ registered = TRUE
    /\ miscdev = PreparedMiscdev
    /\ open_data = 1
    /\ hostKnows = TRUE
    /\ deregCalls = 0
    /\ dropCount = [d \in OpenDataIds |-> 0]
    /\ opc = "idle"
    /\ arg = NoData
    /\ nreg = 1
    /\ pre = [registered |-> FALSE, miscdev |-> DefaultMiscdev,
              open_data |-> NoData, init |-> FALSE]
    /\ regRes = OkResult
    /\ hostRes = 0
    /\ filp = [f \in Files |-> [private_data |-> NULL, f_pos |-> 0]]
    /\ fstate = [f \in Files |-> "Closed"]
    /\ intoForeign = [f \in Files |-> 0]
    /\ borrows = [f \in Files |-> FALSE]
    /\ fromForeign = [f \in Files |-> 0]
    /\ lateBorrows = [f \in Files |-> FALSE]
    /\ th = [t \in Threads |-> IdleThread]
    /\ context = [f \in Files |-> 0]
    /\ delivered = [f \in Files |-> <<>>]
    /\ raced = [f \in Files |-> FALSE]
    /\ reads = [f \in Files |-> 0]
    /\ overridden = {"open", "read"}
    /\ LayoutIdle

\* SimpleReader::open (292-295) inside open_callback (159-169):
\* Arc::try_new(AtomicUsize::new(0)) either yields the Data, which is handed
\* to the host, or fails, and open fails with it.
SimpleReaderOpen(t) ==
    /\ th[t].pc = "contract" /\ th[t].op = "open"
    /\ LET f == th[t].f IN
       \/ /\ context' = [context EXCEPT ![f] = 0]
          /\ filp' = [filp EXCEPT ![f].private_data = into_foreign(f)]
          /\ intoForeign' = [intoForeign EXCEPT ![f] = @ + 1]
          /\ th' = [th EXCEPT ![t].pc = "ret", ![t].called = TRUE,
                              ![t].ok = TRUE, ![t].ret = 0]
       \/ /\ th' = [th EXCEPT ![t].pc = "ret", ![t].called = TRUE,
                              ![t].ok = FALSE, ![t].cause = "contract",
                              ![t].err = ENOMEM, ![t].ret = OpenFailCode]
          /\ UNCHANGED <<context, filp, intoForeign>>
    /\ UNCHANGED <<regVars, hostVars, dropCount, ownerVars, overridden,
                   layoutVars, delivered, raced, reads,
                   fstate, borrows, fromForeign, lateBorrows>>

\* Another read call on the Data of file object f is in progress.
OtherReadOn(t, f) ==
    \E u \in Threads \ {t} :
        th[u].pc # "idle" /\ th[u].op = "read" /\ th[u].f = f

\* SimpleReader::read, lines 299-301: head = context.load(Relaxed) and
\* to = min(head + count, READ_DATA.len()).
SimpleReaderLoad(t) ==
    /\ th[t].pc = "contract" /\ th[t].op = "read"
    /\ LET d == th[t].data
           h == context[d]
       IN /\ th' = [th EXCEPT ![t].pc = "store", ![t].head = h,
                              ![t].to = Min(h + th[t].count, Len(READ_DATA))]
          /\ raced' = [raced EXCEPT ![d] = @ \/ OtherReadOn(t, d)]
          /\ reads' = [reads EXCEPT ![d] = @ + 1]
    /\ UNCHANGED <<regVars, hostVars, dropCount, ownerVars, overridden,
                   layoutVars, context, delivered, fileVars>>

\* SimpleReader::read, lines 304-311: the bytes READ_DATA[head..to] are
\* pushed on a new vector, then context.store(to, Relaxed) and Ok(buf); a
\* try_push that cannot allocate ends the read with that error before the
\* store.
SimpleReaderStore(t) ==
    /\ th[t].pc = "store" /\ th[t].op = "read"
    /\ LET d == th[t].data
           buf == SubSeq(READ_DATA, th[t].head + 1, th[t].to)
       IN \/ /\ context' = [context EXCEPT ![d] = th[t].to]
             /\ delivered' = [delivered EXCEPT ![d] = @ \o buf]
             /\ th' = [th EXCEPT ![t].pc = "copy", ![t].called = TRUE,
                                 ![t].buf = buf]
          \/ /\ buf # <<>>
             /\ th' = [th EXCEPT ![t].pc = "ret", ![t].called = TRUE,
                                 ![t].ok = FALSE, ![t].cause = "contract",
                                 ![t].err = ENOMEM,
                                 ![t].ret = ReadErrCode(ENOMEM),
                                 ![t].fposBefore = filp[th[t].f].f_pos,
                                 ![t].fposAfter = filp[th[t].f].f_pos]
             /\ UNCHANGED <<context, delivered>>
    /\ UNCHANGED <<regVars, hostVars, dropCount, ownerVars, overridden,
                   layoutVars, raced, reads, fileVars>>

\* The host starts one more read on the reader's file object.
ReaderRead(t, count) ==
    /\ reads[ReaderFile] < MaxReaderReads
    /\ ReadBorrow(t, ReaderFile, count)

\* The callbacks the host delivers to a registered SimpleReader device.
ReaderNext ==
    \/ \E t \in Threads : OpenEnter(t, ReaderFile)
    \/ \E t \in Threads : SimpleReaderOpen(t)
    \/ \E t \in Threads, count \in ReaderCounts : ReaderRead(t, count)
    \/ \E t \in Threads : SimpleReaderLoad(t)
    \/ \E t \in Threads : SimpleReaderStore(t)
    \/ \E t \in Threads : ReadCopy(t)
    \/ \E t \in Threads : ReleaseFromForeign(t, ReaderFile)
    \/ \E t \in Threads : ReleaseContract(t)
    \/ \E t \in Threads : HostReturn(t)

ReaderSpec == ReaderInit /\ [][ReaderNext]_vars

(* ====================================================================== *)
(* offset_of! and container_of! on a struct instance                      *)
(* ====================================================================== *)

\* Sizes of the primitive field types u8, u16, u32, u64; each is aligned to
\* its size.
FieldSizes == {1, 2, 4, 8}
\* Struct declarations: up to MaxFields fields.
Layouts == UNION {[1..n -> FieldSizes] : n \in 1..MaxFields}

\* n rounded up to a multiple of a.
AlignUp(n, a) == ((n + a - 1) \div a) * a

\* Byte offset at which the compiler places field i of a struct with fields
\* fs: after the preceding field, padded to the field's alignment.
RECURSIVE FieldOffset(_, _)
FieldOffset(fs, i) ==
    IF i = 1 THEN 0
    ELSE AlignUp(FieldOffset(fs, i - 1) + fs[i - 1], fs[i])

\* Addresses at which a struct instance may live: low, the boxed
\* Registration's, and the last ones of the address space.
InstanceAddrs == {8, RegAddr, AddrSpace - 8 * MaxFields}
\* Addresses of the temporary MaybeUninit in offset_of!.
TmpAddrs == {64, AddrSpace - 8 * MaxFields}

\* offset_of! (366-381): outer is the address of an uninitialized temporary
\* of the struct type, inner the address of its field i taken with addr_of!;
\* the result is inner.offset_from(outer) in bytes.
offset_of(outer, fs, i) ==
    LET inner == outer + FieldOffset(fs, i)
    IN  inner - outer

\* A struct type, one of its fields and an instance of it.
LayoutInit ==
    /\ DeviceInit
    /\ overridden = Methods
    /\ fields \in Layouts
    /\ fieldIx \in 1..Len(fields)
    /\ base \in InstanceAddrs
    /\ fieldPtr = 0 /\ recovered = 0 /\ lpc = "instance"

\* The variables of the Registration, the host and the callbacks.
deviceVars == <<regVars, hostVars, dropCount, ownerVars, fileVars, th,
                overridden, readerVars>>

\* &instance.field (the b_ptr of the example at 403-404; the descriptor
\* address the host holds, 129).
TakeFieldPtr ==
    /\ lpc = "instance"
    /\ fieldPtr' = base + FieldOffset(fields, fieldIx)
    /\ lpc' = "field"
    /\ UNCHANGED <<deviceVars, fields, fieldIx, base, recovered>>

\* container_of!(fieldPtr, Type, field) (407-413, used at 153).
ContainerOf ==
    /\ lpc = "field"
    /\ \E outer \in TmpAddrs :
          recovered' = container_of(fieldPtr, offset_of(outer, fields, fieldIx))
    /\ lpc' = "done"
    /\ UNCHANGED <<deviceVars, fields, fieldIx, base, fieldPtr>>

LayoutNext == TakeFieldPtr \/ ContainerOf

LayoutSpec == LayoutInit /\ [][LayoutNext]_vars

(* ====================================================================== *)
(* Properties                                                             *)
(* ====================================================================== *)

\* The last register call has returned and was made on a Registration that
\* was registered at its entry.
CalledWhileRegistered == opc = "idle" /\ nreg >= 2 /\ pre.registered

\* C1 (as stated): of the register calls made on one Registration only the
\* first succeeds; every later call returns Err(EINVAL), the
\* AlreadyRegistered error, and leaves registered, descriptor and shared
\* state as they were at its entry.
C1_OnlyFirstSucceeds ==
    (opc = "idle" /\ nreg >= 2) =>
        /\ regRes = ErrResult(to_errno(EINVAL))
        /\ RegState = pre

\* C1 (amended): every register call made on a Registration that is
\* registered, that is after a call that succeeded, returns Err(EINVAL)
\* and leaves registered, descriptor, shared state and the host's view
\* unchanged; a successful call started on an unregistered Registration.
C1_RejectedOnceRegistered ==
    /\ CalledWhileRegistered =>
          /\ regRes = ErrResult(to_errno(EINVAL))
          /\ RegState = pre
          /\ hostKnows
          /\ dropCount[nreg] = 1
    /\ (opc = "idle" /\ regRes = OkResult) => ~pre.registered

C1_Witness == CalledWhileRegistered /\ regRes.kind = "err"

\* The running or last register call was refused by the host and has
\* finished its rollback (it is at its return, has returned, or the box is
\* being dropped after the error).
HostFailed == hostRes < 0 /\ opc \in {"reg_err", "idle", "drop_check", "dead"}

C3_ThreeWayEquivalence ==
    opc # "dead" =>
        /\ registered <=> hostKnows
        /\ registered <=> OpenDataInit

\* No register or drop call is between its first and its last step.
Quiescent == opc \in {"start", "reg_check", "idle", "drop_check"}

\* C3 (amended): whenever no register or drop call is in progress,
\* registered holds iff the host knows the descriptor iff the shared state
\* is initialized; and whenever the host knows the descriptor, also inside
\* a call, registered is true and the shared state initialized.  Inside
\* register the flag is set first, the shared state stored next and the
\* descriptor published last.
C3_EquivalenceBetweenCalls ==
    /\ Quiescent =>
          /\ registered <=> hostKnows
          /\ registered <=> OpenDataInit
    /\ hostKnows => (registered /\ OpenDataInit)

C3_Witness == opc = "idle" /\ registered /\ hostKnows /\ OpenDataInit

\* C4: the destructor of every shared-state value supplied to register
\* never runs twice; while the Registration lives a supplied value is
\* either the initialized value it stores or has been destroyed once; and
\* when the Registration is gone every supplied value has been destroyed
\* exactly once.
C4_SharedStateDroppedOnce ==
    /\ \A d \in OpenDataIds : dropCount[d] <= 1
    /\ opc = "idle" =>
          \A d \in 1..nreg :
              \/ dropCount[d] = 1
              \/ (d = open_data /\ registered)
    /\ opc = "dead" => \A d \in 1..nreg : dropCount[d] = 1

C4_Witness ==
    /\ opc = "dead" /\ nreg = 2 /\ hostRes < 0
    /\ \A d \in 1..nreg : dropCount[d] = 1

\* C5: drop acts only on a registered Registration; it calls
\* misc_deregister while the shared state is still initialized and destroys
\* the shared state only after the host has withdrawn the descriptor; the
\* shared state is never destroyed while the host holds the descriptor; an
\* unregistered Registration is freed without a misc_deregister call.
C5_DeregisterBeforeDestroy ==
    /\ opc = "drop_dereg" => (registered /\ OpenDataInit /\ deregCalls = 0)
    /\ opc = "drop_data" => (registered /\ OpenDataInit /\ ~hostKnows
                             /\ deregCalls = 1)
    /\ hostKnows => OpenDataInit
    /\ (opc = "dead" /\ registered) =>
          (deregCalls = 1 /\ dropCount[open_data] = 1 /\ ~hostKnows)
    /\ (opc = "dead" /\ ~registered) => deregCalls = 0

C5_Witness == opc = "drop_data" /\ ~hostKnows /\ OpenDataInit

\* State part of C6: the calls made on the handle of every instance match
\* the instance's state.
C6_Counts ==
    \A f \in Files :
        /\ intoForeign[f] <= 1 /\ fromForeign[f] <= intoForeign[f]
        /\ ~lateBorrows[f]
        /\ borrows[f] => intoForeign[f] = 1
        /\ fstate[f] = "Closed" => (intoForeign[f] = 0 /\ fromForeign[f] = 0)
        /\ fstate[f] = "Opening" => fromForeign[f] = 0
        /\ fstate[f] = "Open" => (intoForeign[f] = 1 /\ fromForeign[f] = 0)
        /\ fstate[f] \in {"Releasing", "Released"} =>
              (intoForeign[f] = 1 /\ fromForeign[f] = 1)
        /\ \A t \in Threads :
              (th[t].pc # "idle" /\ th[t].f = f /\ th[t].op \in {"read", "write"})
                  => (fstate[f] = "Open" /\ fromForeign[f] = 0)

\* Step part of C6: an instance moves only along
\* Closed -> Open -> Released (through the running open and release), a
\* failed open returns it to Closed, Released is never left, and
\* into_foreign is called only by an open, from_foreign only when release
\* starts.
C6_Steps ==
    \A f \in Files :
        /\ fstate'[f] # fstate[f] =>
              <<fstate[f], fstate'[f]>> \in
                  {<<"Closed", "Opening">>, <<"Opening", "Open">>,
                   <<"Opening", "Closed">>, <<"Open", "Releasing">>,
                   <<"Releasing", "Released">>}
        /\ intoForeign'[f] # intoForeign[f] =>
              (fstate[f] = "Opening" /\ intoForeign[f] = 0)
        /\ fromForeign'[f] # fromForeign[f] =>
              (fstate[f] = "Open" /\ fstate'[f] = "Releasing"
               /\ fromForeign[f] = 0)
        /\ (fstate[f] = "Opening" /\ fstate'[f] = "Open") => intoForeign[f] = 1

\* C6: for every open instance there is one into_foreign, in the open that
\* succeeds, then borrow calls by read and write, then exactly one
\* from_foreign, in release; from_foreign is never called twice, borrow
\* never after from_foreign, and the instance follows
\* Closed -> Open -> (read/write)* -> Released with Released terminal.
C6_HandleProtocol == [](C6_Counts) /\ [][C6_Steps]_vars

C6_Witness ==
    \E f \in Files :
        /\ fstate[f] = "Released" /\ borrows[f]
        /\ intoForeign[f] = 1 /\ fromForeign[f] = 1

\* Thread t is at the return of a callback of one of the kinds in ops.
Returning(t, ops) == th[t].pc = "ret" /\ th[t].op \in ops

\* C7: a read that copied k bytes and a write that reports written_length
\* return that number and leave the file's position counter advanced by
\* exactly that number, so the next read or write is given the advanced
\* position.
C7_PositionAdvanced ==
    \A t \in Threads :
        (Returning(t, {"read", "write"}) /\ th[t].ok) =>
            /\ th[t].fposAfter = th[t].fposBefore + th[t].ret
            /\ filp[th[t].f].f_pos = th[t].fposAfter

\* C8: the value a shim returns is negative if the operation failed and
\* non-negative if it succeeded.
C8_NegativeIffFailed ==
    \A t \in Threads :
        th[t].pc = "ret" => (th[t].ret < 0 <=> ~th[t].ok)

\* C9: an open whose contract call failed returns the fault code, has
\* called no into_foreign, leaves private_data as the host set it and the
\* instance not open; a Closed instance has seen no into_foreign and no
\* from_foreign.
C9_FailedOpen ==
    /\ \A t \in Threads :
          (Returning(t, {"open"}) /\ ~th[t].ok) =>
              /\ th[t].ret = to_errno(EFAULT)
              /\ intoForeign[th[t].f] = 0
              /\ filp[th[t].f].private_data = MiscdevPtr
              /\ fstate[th[t].f] = "Opening"
    /\ \A f \in Files :
          fstate[f] = "Closed" => (intoForeign[f] = 0 /\ fromForeign[f] = 0)

C11_SameDataThroughout ==
    /\ \A t \in Threads :
          (th[t].pc # "idle" /\ th[t].op \in {"read", "write", "release"}) =>
              /\ th[t].data = th[t].f
              /\ intoForeign[th[t].f] = 1
              /\ filp[th[t].f].private_data = into_foreign(th[t].data)
              /\ filp[th[t].f].private_data # MiscdevPtr
    /\ \A f \in Files :
          fstate[f] \in {"Open", "Releasing", "Released"} =>
              /\ from_foreign(filp[f].private_data) = f
              /\ borrow(filp[f].private_data) = f
              /\ \A g \in Files \ {f} :
                    filp[g].private_data # filp[f].private_data

C11_Witness ==
    \E t, u \in Threads :
        /\ th[t].pc = "ret" /\ th[t].op = "release" /\ th[t].data = th[t].f
        /\ borrows[th[t].f]
        /\ th[u].pc = "contract" /\ th[u].op \in {"read", "write"}
        /\ th[u].data = th[u].f /\ th[u].f # th[t].f

\* struct Test { a: u64, b: u32 } of the examples (358-361, 398-401).
TestStruct == <<8, 4>>

\* C12: back-reference recovery is exact: for every struct layout and every
\* instance address, container_of applied to the address of the named field
\* of the instance yields the instance's address, and offset_of is the
\* field's byte offset (8 for field b of {a: u64, b: u32}).
C12_ExactRecovery ==
    /\ lpc = "done" => recovered = base
    /\ \A outer \in TmpAddrs :
          /\ lpc # "none" =>
                offset_of(outer, fields, fieldIx) = FieldOffset(fields, fieldIx)
          /\ offset_of(outer, TestStruct, 2) = 8
    /\ lpc \in {"field", "done"} =>
          \A outer \in TmpAddrs :
              container_of(fieldPtr, offset_of(outer, fields, fieldIx)) = base
    /\ container_of(MiscdevPtr, MiscdevOffset) = RegAddr

\* The named field lies behind padding and the instance at the end of the
\* address space.
C12_Witness ==
    /\ lpc = "done" /\ recovered = base
    /\ fieldIx > 1
    /\ FieldOffset(fields, fieldIx) >
          FieldOffset(fields, fieldIx - 1) + fields[fieldIx - 1]
    /\ base = AddrSpace - 8 * MaxFields

\* The host-held handle owns the Data of instance f: into_foreign was
\* called and from_foreign was not.
HandleOwns(f) == intoForeign[f] = 1 /\ fromForeign[f] = 0
\* The read and write shims that hold a borrow of the Data of instance f.
ShimBorrows(f) ==
    {t \in Threads : /\ th[t].pc # "idle" /\ th[t].f = f
                     /\ th[t].op \in {"read", "write"}}
\* release_callback has taken the Data of f back and T::release, which
\* consumes it, has not run yet.
ReleaseOwns(f) ==
    \E t \in Threads :
        th[t].op = "release" /\ th[t].pc = "contract" /\ th[t].f = f
\* The Data of instance f exists: T::open returned it and T::release has not
\* consumed it.
DataLive(f) ==
    /\ intoForeign[f] = 1
    /\ fstate[f] # "Released"
    /\ ~\E t \in Threads :
          th[t].op = "release" /\ th[t].pc = "ret" /\ th[t].f = f

\* C13 (as stated): at every instant the per-open Data of an open instance
\* is held by exactly one of: the host-held handle, a shim's local borrow,
\* the Device Contract during release.  (A handle that is lent to a shim is
\* not counted beside that shim's borrow.)
C13_ExactlyOneHolder ==
    \A f \in Files :
        DataLive(f) =>
            Cardinality(ShimBorrows(f))
              + (IF ReleaseOwns(f) THEN 1 ELSE 0)
              + (IF HandleOwns(f) /\ ShimBorrows(f) = {} THEN 1 ELSE 0) = 1

\* C13 (amended): at every instant the per-open Data of an instance has
\* exactly one owner, the host-held handle or the Device Contract during
\* release; read and write shims hold shared borrows, any number of them at
\* once, only while the handle owns the Data, and none is left when release
\* owns it.
C13_OneOwnerSharedBorrows ==
    \A f \in Files :
        /\ DataLive(f) => (HandleOwns(f) /\ ~ReleaseOwns(f))
                           \/ (~HandleOwns(f) /\ ReleaseOwns(f))
        /\ ShimBorrows(f) # {} => (DataLive(f) /\ HandleOwns(f))
        /\ ReleaseOwns(f) => (DataLive(f) /\ ShimBorrows(f) = {})
        /\ Cardinality({t \in Threads : th[t].op = "release" /\ th[t].f = f}) <= 1

\* Two shims hold a borrow of the same Data at once.
C13_Witness ==
    \E f \in Files :
        Cardinality(ShimBorrows(f)) = 2 /\ HandleOwns(f) /\ DataLive(f)

\* C14: every Device Contract method the implementer does not override fails
\* with the unsupported-operation error (EINVAL); hence a device that does
\* not override open never brings an instance to the Open state, and its
\* read, write and release are never reached through the shims.
C14_DefaultsFail ==
    /\ \A t \in Threads :
          (th[t].called /\ th[t].op \notin overridden) =>
              (~th[t].ok /\ th[t].cause = "contract" /\ th[t].err = EINVAL)
    /\ "open" \notin overridden =>
          /\ \A f \in Files :
                /\ fstate[f] \in {"Closed", "Opening"}
                /\ intoForeign[f] = 0 /\ ~borrows[f] /\ fromForeign[f] = 0
          /\ \A t \in Threads : th[t].op \in {"none", "open"}

\* Two opens of a device that overrides nothing have both failed in the
\* provided open.
C14_Witness ==
    /\ overridden = {}
    /\ \E t, u \in Threads :
          /\ t # u
          /\ th[t].pc = "ret" /\ th[t].op = "open" /\ th[t].err = EINVAL
          /\ th[u].pc = "ret" /\ th[u].op = "open" /\ th[u].err = EINVAL

\* Thread t runs an open callback.
InOpen(t) == th[t].pc # "idle" /\ th[t].op = "open"
\* A register call is between its entry and its return.
InRegister == opc \in {"reg_check", "reg_prepare", "reg_flag", "reg_write",
                       "reg_host", "reg_res", "reg_undo", "reg_err", "reg_ok"}

\* State part of C15.
C15_Stored ==
    /\ opc = "reg_host" => (OpenDataInit /\ open_data = nreg /\ ~hostKnows)
    /\ hostKnows => (OpenDataInit /\ hostRes = 0)
    /\ \A t \in Threads :
          InOpen(t) =>
              /\ th[t].ref # NoData /\ th[t].ref = open_data
              /\ hostRes = 0
              /\ InRegister => (opc \in {"reg_res", "reg_ok"}
                                \/ (pre.registered /\ opc \in {"reg_check", "reg_err"}))
              /\ (InRegister \/ opc = "idle") => dropCount[th[t].ref] = 0
    /\ hostRes < 0 =>
          /\ \A t \in Threads : th[t].pc = "idle"
          /\ \A f \in Files : fstate[f] = "Closed" /\ intoForeign[f] = 0

\* Step part of C15: the step in which an open callback takes its
\* reference to the shared state (157) finds the descriptor published and
\* the shared state initialized, and a refused misc_register publishes
\* nothing.
C15_Steps ==
    /\ \A t \in Threads :
          (~InOpen(t) /\ InOpen(t)') =>
              (hostKnows /\ OpenDataInit /\ th'[t].ref = open_data)
    /\ (opc = "reg_host" /\ hostRes' < 0) => (~hostKnows /\ ~hostKnows')

\* C15: register stores the shared state before it publishes the descriptor
\* to the host, so every open callback the host delivers, also one arriving
\* after the publish step and before register has returned, reads an
\* initialized shared state; and when the host call fails no callback has
\* run against the state that is rolled back.
C15_StoredBeforePublished == [](C15_Stored) /\ [][C15_Steps]_vars

\* An open callback is running while the register call that published the
\* descriptor has not returned.
C15_Witness ==
    /\ opc \in {"reg_res", "reg_ok"} /\ ~pre.registered
    /\ \E t \in Threads :
          InOpen(t) /\ th[t].pc = "ret" /\ th[t].ok /\ th[t].ref = open_data
    /\ OpenDataInit

\* The step of thread t in which open_callback calls T::open with its
\* reference to the shared state (159).
OpenUsesRef(t) ==
    /\ th[t].pc = "contract" /\ th[t].op = "open"
    /\ th'[t].pc = "ret"

\* C16: when destruction of a registered Registration begins while an open
\* callback is in progress, the shared state is not destroyed before that
\* callback has finished using its reference: no open shim hands T::open a
\* shared state whose destructor has run.
C16_NoUseAfterDestroy ==
    [][\A t \in Threads : OpenUsesRef(t) => dropCount[th[t].ref] = 0]_vars

\* C17: a write of requested length n hands T::write a buffer of exactly n
\* bytes equal to the n source bytes, together with the current position; if
\* the buffer cannot be allocated the shim returns the fault code, once,
\* without invoking the contract.
C17_WriteBufferExact ==
    \A t \in Threads :
        /\ (th[t].op = "write" /\ th[t].pc = "contract") =>
              /\ Len(th[t].buf) = th[t].count
              /\ th[t].buf = th[t].user
              /\ th[t].pos = filp[th[t].f].f_pos
        /\ (Returning(t, {"write"}) /\ th[t].cause = "alloc") =>
              /\ ~th[t].called /\ ~th[t].ok
              /\ th[t].buf = <<>>
              /\ th[t].ret = to_errno(EFAULT)

\* C18: a read of requested count n never copies more than n bytes into the
\* destination buffer and never returns a count greater than n, whatever
\* the length of the byte vector T::read returns.
C18_ReadWithinCount ==
    \A t \in Threads :
        Returning(t, {"read"}) =>
            /\ Len(th[t].user) <= th[t].count
            /\ th[t].ok => th[t].ret <= th[t].count

\* SimpleReader::read has returned Ok(buf) to the read callback of thread t.
ReaderReturned(t) ==
    /\ th[t].op = "read" /\ th[t].pc \in {"copy", "ret"}
    /\ th[t].called /\ th[t].cause # "contract"

\* C19: on one open instance of the documented reader, reads made one after
\* the other return consecutive slices of the 10-byte string, none skipped
\* or duplicated, each of length min(count, bytes remaining); and the read
\* that follows the first is issued at the position the first one reached
\* (5 after a first read of 5 bytes).
C19_SequentialSlices ==
    \A t \in Threads :
        LET d == th[t].data IN
        (th[t].op = "read" /\ th[t].pc # "idle" /\ ~raced[d]) =>
            /\ ReaderReturned(t) =>
                  /\ th[t].buf = SubSeq(READ_DATA, th[t].head + 1, th[t].to)
                  /\ Len(th[t].buf) =
                        Min(th[t].count, Len(READ_DATA) - th[t].head)
                  /\ delivered[d] = SubSeq(READ_DATA, 1, th[t].to)
                  /\ context[d] = th[t].to
            /\ (ReaderReturned(t) /\ th[t].pc = "ret" /\ th[t].ok
                  /\ reads[d] = 1) =>
                  /\ th[t].ret = Len(th[t].buf)
                  /\ filp[th[t].f].f_pos = th[t].to

\* C20: two reads the host runs concurrently on one open instance of the
\* documented reader return disjoint slices of the string, and once both
\* have stored, the head equals the number of bytes returned.
C20_ConcurrentSlicesDisjoint ==
    /\ \A t, u \in Threads :
          (/\ t # u /\ ReaderReturned(t) /\ ReaderReturned(u)
           /\ th[t].data = th[u].data
           /\ th[t].buf # <<>> /\ th[u].buf # <<>>) =>
              (th[t].to <= th[u].head \/ th[u].to <= th[t].head)
    /\ \A d \in Files :
          (~\E t \in Threads : th[t].op = "read" /\ th[t].pc = "store"
                                /\ th[t].data = d) =>
              context[d] = Len(delivered[d])

====
